---- MODULE Spec2Model ----
(***************************************************************************)
(* A model of cili/cleanup.py: event-interval masking, recovery            *)
(* adjustment and index expansion over a time-indexed sample table.        *)
(*                                                                         *)
(* Positions are 0-based as in the source; TLA+ sequences are 1-based, so  *)
(* a positional read goes through PyIndex.  A sample table is a record     *)
(* [cols, data]; its index (the time keys) is the variable keys.  An event *)
(* frame is a sequence of rows [onset, duration], onset being the row's    *)
(* index label.                                                            *)
(***************************************************************************)
EXTENDS Integers, Sequences, FiniteSets

VARIABLES
    entry,      \* the public function that was called
    pc,         \* position inside the call
    keys,       \* samples.index: ascending unique time keys
    tbls,       \* sample tables by reference: "samples" (caller's), "samps" (copy),
                \* "interp" (a table interpolate returns)
    frames,     \* event frames by reference: "events", "EBLINK", "ESACC" (caller's),
                \* "nested" (find_nested_events' result), "be" (pd.concat's result)
    pre,        \* the caller's tables and frames as they were when the call was made
    args,       \* the call's parameters
    cand,       \* onsets / last_onsets of the candidate (inner) events
    evRef,      \* the frame adjust_eyelink_recov_idxs was handed
    i,          \* loop counter (events processed, fields processed)
    new_durs,   \* adjust_eyelink_recov_idxs: the list of new durations
    zbelow,     \* adjust_eyelink_recov_idxs: dfs_ravg < z_thresh, per position
    idxs,       \* ev_row_idxs: the returned time keys
    res,        \* has_overlapping_events: results of the calls made so far
    ret         \* what the called function returned

vars == <<entry, pc, keys, tbls, frames, pre, args, cand, evRef, i, new_durs,
          zbelow, idxs, res, ret>>

-----------------------------------------------------------------------------
(* Bounds of the model *)

MaxKey == 5
NSamp == 4
MaxOnset == 3
MaxDur == 3
MaxVal == 2
MaxEvents == 2

-----------------------------------------------------------------------------
(* Python / numpy / pandas primitives *)

Min(a, b) == IF a < b THEN a ELSE b

Max(a, b) == IF a > b THEN a ELSE b

Range(s) == {s[k] : k \in DOMAIN s}

RECURSIVE SortSet(_)
SortSet(S) ==
    IF S = {} THEN <<>>
    ELSE LET m == CHOOSE x \in S : \A y \in S : x <= y
         IN  <<m>> \o SortSet(S \ {m})

RECURSIVE SumSeq(_)
SumSeq(s) == IF s = <<>> THEN 0 ELSE Head(s) + SumSeq(Tail(s))

\* seq[p] for a Python index p (negative p counts from the end)
PyIndex(s, p) == IF p < 0 THEN s[Len(s) + p + 1] ELSE s[p + 1]

\* the bound of a Python slice, normalised to 0..n
PySliceBound(b, n) == IF b < 0 THEN Max(b + n, 0) ELSE Min(b, n)

\* the 0-based positions a[start:stop] reads, in order
PySlice(start, stop, n) ==
    LET lo == PySliceBound(start, n)
        hi == PySliceBound(stop, n)
    IN  [k \in 1..Max(hi - lo, 0) |-> lo + k - 1]

\* list(range(a, b))
PyRange(a, b) == [k \in 1..Max(b - a, 0) |-> a + k - 1]

\* np.unique: the sorted distinct elements
NpUnique(s) == SortSet(Range(s))

\* np.intersect1d: the sorted distinct common elements
NpIntersect1d(a, b) == SortSet(Range(a) \cap Range(b))

\* Index.searchsorted(x, side="right"): number of keys <= x
SearchSortedRight(ks, x) == Cardinality({k \in DOMAIN ks : ks[k] <= x})

\* Index.get_loc(x): the position of key x; found = FALSE models KeyError
GetLoc(ks, x) ==
    IF \E k \in DOMAIN ks : ks[k] = x
    THEN [found |-> TRUE, pos |-> (CHOOSE k \in DOMAIN ks : ks[k] = x) - 1]
    ELSE [found |-> FALSE, pos |-> 0]

-----------------------------------------------------------------------------
(* Cells, tables, frames *)

\* a cell: NaN, or the rational num/den; filt marks a value that is the output
\* of scipy's filter, whose arithmetic is not computed here
Val(v) == [nan |-> FALSE, num |-> v, den |-> 1, filt |-> FALSE]

NaN == [nan |-> TRUE, num |-> 0, den |-> 1, filt |-> FALSE]

Row(o, d) == [onset |-> o, duration |-> d]

NoTbls == [r \in {"samples", "samps", "interp"} |-> [cols |-> <<>>, data |-> <<>>]]

NoFrames == [r \in {"events", "EBLINK", "ESACC", "nested", "be"} |-> <<>>]

NoCand == [onsets |-> <<>>, last_onsets |-> <<>>]

NoRet == [kind |-> "pending", ref |-> ""]

-----------------------------------------------------------------------------
(* Inputs shared by the specifications *)

\* every ascending sequence of NSamp unique time keys within 0..MaxKey
KeySeqs == {SortSet(S) : S \in {T \in SUBSET (0..MaxKey) : Cardinality(T) = NSamp}}

EventRows == {Row(o, d) : <<o, d>> \in (0..MaxOnset) \X (0..MaxDur)}

SeqsUpTo(S, n) == UNION {[1..k -> S] : k \in 0..n}

-----------------------------------------------------------------------------
(* ev_row_idxs *)

EventRangeInclusive(row) == PyRange(row.onset, row.onset + row.duration + 1)

\* list(range(idx, int(idx + dur)))
EventRange(row) == PyRange(row.onset, row.onset + row.duration)

\* the list built by idxs.extend(...) over events.duration.items()
RECURSIVE ExtendRanges(_)
ExtendRanges(frame) ==
    IF frame = <<>> THEN <<>>
    ELSE EventRange(Head(frame)) \o ExtendRanges(Tail(frame))

ev_row_idxs(ks, frame) == NpIntersect1d(NpUnique(ExtendRanges(frame)), ks)

EvRowIdxsCall ==
    /\ entry = "ev_row_idxs"
    /\ pc = "call"
    /\ idxs' = ev_row_idxs(keys, frames["events"])
    /\ ret' = [kind |-> "idxs", ref |-> ""]
    /\ pc' = "done"
    /\ UNCHANGED <<entry, keys, tbls, frames, pre, args, cand, evRef, i, new_durs,
                   zbelow, res>>

InitRows ==
    /\ entry = "ev_row_idxs"
    /\ pc = "call"
    /\ keys \in KeySeqs
    /\ tbls = NoTbls
    /\ \E f \in SeqsUpTo(EventRows, MaxEvents) :
         /\ frames = [NoFrames EXCEPT !["events"] = f]
         /\ pre = [tbls |-> NoTbls, frames |-> [NoFrames EXCEPT !["events"] = f]]
    /\ args = <<>>
    /\ cand = NoCand
    /\ evRef = ""
    /\ i = 0
    /\ new_durs = <<>>
    /\ zbelow = <<>>
    /\ idxs = <<>>
    /\ res = <<>>
    /\ ret = NoRet

NextRows == EvRowIdxsCall

SpecRows == InitRows /\ [][NextRows]_vars

\* C7: ev_row_idxs returns exactly the time keys k of the sample table with
\* onset <= k < onset + duration for some event, ascending and without
\* duplicates, and nothing that is not a key of the table.
C7_EvRowIdxsExact ==
    (entry = "ev_row_idxs" /\ pc = "done") =>
        /\ Range(idxs) = {k \in Range(keys) :
                            \E r \in DOMAIN frames["events"] :
                               LET e == frames["events"][r]
                               IN  e.onset <= k /\ k < e.onset + e.duration}
        /\ \A m, n \in DOMAIN idxs : m < n => idxs[m] < idxs[n]
        /\ Range(idxs) \subseteq Range(keys)

\* an event starting before the first sample and one running past the last,
\* overlapping each other, with some key selected
C7_Witness ==
    /\ entry = "ev_row_idxs" /\ pc = "done"
    /\ Len(idxs) >= 2
    /\ \E r \in DOMAIN frames["events"] : frames["events"][r].onset < keys[1]
    /\ \E r \in DOMAIN frames["events"] :
         frames["events"][r].onset + frames["events"][r].duration > keys[Len(keys)]
    /\ \E r, q \in DOMAIN frames["events"] :
         /\ r # q
         /\ frames["events"][r].onset < frames["events"][q].onset
         /\ frames["events"][q].onset
              < frames["events"][r].onset + frames["events"][r].duration

-----------------------------------------------------------------------------
(* mask_zeros *)

Cols == <<"pup_l", "x_l">>

\* a table of the given columns, from per-column value sequences
Table(cols, data) == [cols |-> cols, data |-> data]

\* samps[f] == 0: the boolean row mask
ZeroRows(t, f) == {r \in 1..Len(t.data[f]) : ~t.data[f][r].nan /\ t.data[f][r].num = 0}

\* samps[mask] = nan with a boolean row mask: every column of the masked rows
SetRowsNaN(t, rows) ==
    [t EXCEPT !.data = [c \in DOMAIN t.data |->
                           [r \in DOMAIN t.data[c] |->
                               IF r \in rows THEN NaN ELSE t.data[c][r]]]]

\* samps = samples.copy(deep=True)
MaskZerosBegin ==
    /\ entry \in {"mask_zeros", "interp_zeros"}
    /\ pc = "call"
    /\ tbls' = [tbls EXCEPT !["samps"] = tbls["samples"]]
    /\ i' = 0
    /\ pc' = "mz_loop"
    /\ UNCHANGED <<entry, keys, frames, pre, args, cand, evRef, new_durs, zbelow,
                   idxs, res, ret>>

\* for f in mask_fields: samps[samps[f] == 0] = float("nan")
MaskZerosField ==
    /\ entry \in {"mask_zeros", "interp_zeros"}
    /\ pc = "mz_loop"
    /\ i < Len(args.mask_fields)
    /\ LET f == args.mask_fields[i + 1]
       IN  tbls' = [tbls EXCEPT !["samps"] = SetRowsNaN(@, ZeroRows(@, f))]
    /\ i' = i + 1
    /\ UNCHANGED <<entry, pc, keys, frames, pre, args, cand, evRef, new_durs,
                   zbelow, idxs, res, ret>>

\* return samps
MaskZerosReturn ==
    /\ entry = "mask_zeros"
    /\ pc = "mz_loop"
    /\ i = Len(args.mask_fields)
    /\ ret' = [kind |-> "table", ref |-> "samps"]
    /\ pc' = "done"
    /\ UNCHANGED <<entry, keys, tbls, frames, pre, args, cand, evRef, i, new_durs,
                   zbelow, idxs, res>>

ValSeqs == [1..NSamp -> {Val(v) : v \in 0..MaxVal}]

FieldLists == {<<>>, <<"pup_l">>, <<"x_l">>, <<"pup_l", "x_l">>}

InitZeros ==
    /\ entry = "mask_zeros"
    /\ pc = "call"
    /\ keys = [k \in 1..NSamp |-> k - 1]
    /\ \E p \in ValSeqs, x \in ValSeqs :
         LET t == Table(Cols, [c \in {"pup_l", "x_l"} |-> IF c = "pup_l" THEN p ELSE x])
             h == [NoTbls EXCEPT !["samples"] = t]
         IN  /\ tbls = h
             /\ pre = [tbls |-> h, frames |-> NoFrames]
    /\ frames = NoFrames
    /\ \E mf \in FieldLists : args = [mask_fields |-> mf]
    /\ cand = NoCand
    /\ evRef = ""
    /\ i = 0
    /\ new_durs = <<>>
    /\ zbelow = <<>>
    /\ idxs = <<>>
    /\ res = <<>>
    /\ ret = NoRet

NextZeros == MaskZerosBegin \/ MaskZerosField \/ MaskZerosReturn

SpecZeros == InitZeros /\ [][NextZeros]_vars

\* C3: mask_zeros replaces exactly the zero cells of the listed fields by NaN,
\* field by field, and leaves every other cell as it was in the input.
C3_MaskZerosCellwise ==
    (entry = "mask_zeros" /\ pc = "done") =>
        \A c \in DOMAIN tbls["samples"].data :
            \A r \in DOMAIN tbls["samples"].data[c] :
                tbls[ret.ref].data[c][r] =
                    IF c \in Range(args.mask_fields) /\ tbls["samples"].data[c][r] = Val(0)
                    THEN NaN
                    ELSE tbls["samples"].data[c][r]

-----------------------------------------------------------------------------
(* adjust_eyelink_recov_idxs *)

\* util.PUP_FIELDS: the recognized pupil-size channel names
PUP_FIELDS == {"pup_r", "pup_l", "RP", "LP", "pup"}

\* the defaults of z_thresh (as a ratio), window and kernel_size
DefaultZNum == 1
DefaultZDen == 10
DefaultWindow == 1000
DefaultKernel == 100

AdjustDefaults ==
    [z_num |-> DefaultZNum, z_den |-> DefaultZDen,
     window |-> DefaultWindow, kernel_size |-> DefaultKernel]

\* p_fields = [f for f in samples.columns if f in PUP_FIELDS]
PupFields(t) == SelectSeq(t.cols, LAMBDA f : f \in PUP_FIELDS)

\* 2 * np.gradient(v): one-sided differences at the ends, central ones inside
\* (the z-score below is invariant under the common factor)
Gradient2(v) ==
    [p \in 1..Len(v) |->
        IF p = 1 THEN 2 * (v[2] - v[1])
        ELSE IF p = Len(v) THEN 2 * (v[Len(v)] - v[Len(v) - 1])
        ELSE v[p + 1] - v[p - 1]]

\* kernel_size * (reversed rolling mean, reversed back): the sum over positions
\* p .. p+kernel_size-1, NaN where that window runs past the end
LookAheadSum(g, kernel_size) ==
    [p \in 1..Len(g) |->
        IF p + kernel_size - 1 > Len(g) THEN NaN
        ELSE Val(SumSeq(SubSeq(g, p, p + kernel_size - 1)))]

\* np.abs((dfs_ravg - np.mean(dfs_ravg)) / np.std(dfs_ravg)) < z_thresh, per
\* position.  np.mean and np.std of a series holding a NaN are NaN, a zero
\* np.std gives 0/0 = NaN, and NaN < z_thresh is False.  Otherwise, with
\* D[p] = n * a[p] - sum(a) and Q = sum(D^2): |z[p]| < zn/zd  iff
\* D[p]^2 * n * zd^2 < zn^2 * Q.
ZBelow(v, kernel_size, zn, zd) ==
    LET n == Len(v)
        a == LookAheadSum(Gradient2(v), kernel_size)
        anyNaN == \E p \in 1..n : a[p].nan
        S == SumSeq([p \in 1..n |-> a[p].num])
        D == [p \in 1..n |-> n * a[p].num - S]
        Q == SumSeq([p \in 1..n |-> D[p] * D[p]])
    IN  [p \in 1..n |->
            /\ ~anyNaN
            /\ Q # 0
            /\ D[p] * D[p] * n * zd * zd < zn * zn * Q]

\* the except branch: s_pos = e_pos = 0
ExceptPosWrong == [s_pos |-> 0, e_pos |-> 1]

ExceptPos == [s_pos |-> 0, e_pos |-> 0]

\* the try block: s_pos is a position, e_pos the time key at the window's end
EndPositions(ks, row, window) ==
    LET loc == GetLoc(ks, row.onset + row.duration)
    IN  IF ~loc.found THEN ExceptPos
        ELSE [s_pos |-> loc.pos - 1,
              e_pos |-> PyIndex(ks, Min(loc.pos - 1 + window, Len(ks) - 1))]

\* np.argmax(dfs_ravg[s_pos:e_pos] < z_thresh): the offset of the first True
\* in the slice, 0 when there is none
ArgmaxBelow(zb, sl) ==
    IF \E k \in DOMAIN sl : zb[sl[k] + 1]
    THEN (CHOOSE k \in DOMAIN sl :
            zb[sl[k] + 1] /\ \A j \in 1..(k - 1) : ~zb[sl[j] + 1]) - 1
    ELSE 0

\* one pass of the loop body: the duration appended to new_durs, or
\* raised = TRUE when np.argmax is handed an empty slice (ValueError)
NewDuration(ks, zb, row, window) ==
    LET n == Len(ks)
        pos == EndPositions(ks, row, window)
        sl == PySlice(pos.s_pos, pos.e_pos, n)
    IN  IF pos.s_pos = pos.e_pos THEN [raised |-> FALSE, dur |-> row.duration]
        ELSE IF sl = <<>> THEN [raised |-> TRUE, dur |-> row.duration]
        ELSE LET e_dpos == ArgmaxBelow(zb, sl)
                 new_end == PyIndex(ks, Min(pos.s_pos + e_dpos, n - 1))
             IN  [raised |-> FALSE, dur |-> new_end - row.onset]

\* where control goes when adjust_eyelink_recov_idxs returns
AfterAdjust == IF entry = "adjust_eyelink_recov_idxs" THEN "done" ELSE "gme_ret"

\* the sample table adjust_eyelink_recov_idxs was handed
AdjustSamples ==
    IF entry \in {"mask_eyelink_blinks", "interp_eyelink_blinks"} THEN "samps" ELSE "samples"

\* lines 241-251: pick the pupil field (return if there is none), smooth and
\* z-score its gradient
AdjustBegin ==
    /\ pc = "adj_begin"
    /\ LET t == tbls[AdjustSamples]
           p_fields == PupFields(t)
       IN  IF Len(p_fields) = 0
           THEN /\ pc' = AfterAdjust
                /\ ret' = IF entry = "adjust_eyelink_recov_idxs"
                          THEN [kind |-> "None", ref |-> ""] ELSE ret
                /\ UNCHANGED <<zbelow, i, new_durs>>
           ELSE /\ zbelow' = ZBelow([r \in 1..Len(keys) |-> t.data[p_fields[1]][r].num],
                                    args.kernel_size, args.z_num, args.z_den)
                /\ i' = 0
                /\ new_durs' = <<>>
                /\ pc' = "adj_loop"
                /\ ret' = ret
    /\ UNCHANGED <<entry, keys, tbls, frames, pre, args, cand, evRef, idxs, res>>

\* lines 254-266: one event of the loop
AdjustEvent ==
    /\ pc = "adj_loop"
    /\ i < Len(frames[evRef])
    /\ LET nd == NewDuration(keys, zbelow, frames[evRef][i + 1], args.window)
       IN  IF nd.raised
           THEN /\ pc' = "raised"
                /\ UNCHANGED <<i, new_durs>>
           ELSE /\ new_durs' = Append(new_durs, nd.dur)
                /\ i' = i + 1
                /\ pc' = pc
    /\ UNCHANGED <<entry, keys, tbls, frames, pre, args, cand, evRef, zbelow, idxs,
                   res, ret>>

\* line 267: events.duration = new_durs
AdjustAssign ==
    /\ pc = "adj_loop"
    /\ i = Len(frames[evRef])
    /\ frames' = [frames EXCEPT ![evRef] =
                     [k \in DOMAIN @ |-> [@[k] EXCEPT !.duration = new_durs[k]]]]
    /\ pc' = AfterAdjust
    /\ ret' = IF entry = "adjust_eyelink_recov_idxs"
              THEN [kind |-> "None", ref |-> ""] ELSE ret
    /\ UNCHANGED <<entry, keys, tbls, pre, args, cand, evRef, i, new_durs, zbelow,
                   idxs, res>>

Windows == {1, 2}

KernelSizes == {1, 2}

\* pupil traces flat at 1, then any value, then ending at MaxVal
RecovPups ==
    {p \in ValSeqs : /\ \A r \in 1..(NSamp - 2) : p[r] = Val(1)
                     /\ p[NSamp] = Val(MaxVal)}

\* event tables of no, one or two events, in any order
RecovFrames ==
    {<<>>} \cup {<<a>> : a \in EventRows} \cup {<<a, b>> : <<a, b>> \in EventRows \X EventRows}

\* sample tables with a pupil channel, and one without any
RecovTables ==
    {Table(Cols, [c \in {"pup_l", "x_l"} |->
                    IF c = "pup_l" THEN p ELSE [r \in 1..NSamp |-> Val(1)]]) :
        p \in RecovPups}
    \cup {Table(<<"x_l">>, [c \in {"x_l"} |-> [r \in 1..NSamp |-> Val(1)]])}

InitRecov ==
    /\ entry = "adjust_eyelink_recov_idxs"
    /\ pc = "adj_begin"
    /\ keys \in KeySeqs
    /\ \E t \in RecovTables, f \in RecovFrames :
         LET h == [NoTbls EXCEPT !["samples"] = t]
             g == [NoFrames EXCEPT !["events"] = f]
         IN  /\ tbls = h
             /\ frames = g
             /\ pre = [tbls |-> h, frames |-> g]
    /\ \E w \in Windows, ks \in KernelSizes :
         args = [AdjustDefaults EXCEPT !.window = w, !.kernel_size = ks]
    /\ cand = NoCand
    /\ evRef = "events"
    /\ i = 0
    /\ new_durs = <<>>
    /\ zbelow = <<>>
    /\ idxs = <<>>
    /\ res = <<>>
    /\ ret = NoRet

NextRecov == AdjustBegin \/ AdjustEvent \/ AdjustAssign

SpecRecov == InitRecov /\ [][NextRecov]_vars

\* the events as handed to the call, and as they are now
EvBefore == pre.frames["events"]

EvNow == frames["events"]

HasPupil == Len(PupFields(tbls["samples"])) > 0

\* the event's end time is a time key of the sample table
Resolvable(row) == \E k \in DOMAIN keys : keys[k] = row.onset + row.duration

\* the sample position s at the event's end (get_loc - 1)
EndPos(row) == (CHOOSE k \in DOMAIN keys : keys[k] = row.onset + row.duration) - 2

\* the forward search window [s, min(s + window, last position)]
SearchWindow(row) ==
    {p \in 0..(Len(keys) - 1) :
        EndPos(row) <= p /\ p <= Min(EndPos(row) + args.window, Len(keys) - 1)}

Returned == entry = "adjust_eyelink_recov_idxs" /\ pc = "done"

\* C2: after adjust_eyelink_recov_idxs returns, every event's duration is at
\* least what it was before the call and its onset is unchanged.
C2_NeverShortens ==
    Returned =>
        /\ Len(EvNow) = Len(EvBefore)
        /\ \A k \in DOMAIN EvBefore :
              /\ EvNow[k].onset = EvBefore[k].onset
              /\ EvNow[k].duration >= EvBefore[k].duration

\* C6: an event none of whose search-window positions is below z_thresh (also
\* when every z-score is NaN) has the same duration after the call as before.
C6_NotFoundUnchanged ==
    (Returned /\ HasPupil) =>
        \A k \in DOMAIN EvBefore :
            (/\ Resolvable(EvBefore[k])
             /\ \A p \in SearchWindow(EvBefore[k]) : ~zbelow[p + 1])
            => EvNow[k].duration = EvBefore[k].duration

\* C9: for an event whose end is at sample position s, the new end is the time
\* key of a position p with s <= p <= min(s + window, len(samples) - 1).
C9_NewEndInsideWindow ==
    (Returned /\ HasPupil) =>
        \A k \in DOMAIN EvBefore :
            (Resolvable(EvBefore[k]) /\ EndPos(EvBefore[k]) >= 0)
            => \E p \in SearchWindow(EvBefore[k]) :
                  keys[p + 1] = EvNow[k].onset + EvNow[k].duration

\* C10: an event whose end time is not a time key keeps its duration and does
\* not make the call raise; the other events are still processed, new_durs
\* holding one entry per processed event in the original order, and every
\* event keeps its onset and its place in the table.
C10_FailureIsolated ==
    entry = "adjust_eyelink_recov_idxs" =>
        /\ pc = "raised" => Resolvable(EvBefore[i + 1])
        /\ pc \in {"adj_loop", "raised"} =>
              /\ Len(new_durs) = i
              /\ \A k \in DOMAIN new_durs :
                    ~Resolvable(EvBefore[k]) => new_durs[k] = EvBefore[k].duration
        /\ pc = "done" =>
              /\ Len(EvNow) = Len(EvBefore)
              /\ \A k \in DOMAIN EvBefore :
                    /\ EvNow[k].onset = EvBefore[k].onset
                    /\ ~Resolvable(EvBefore[k])
                          => EvNow[k].duration = EvBefore[k].duration
              /\ HasPupil => \A k \in DOMAIN EvBefore :
                                EvNow[k].duration = new_durs[k]

\* an event ending past the last sample is followed by one whose end was
\* found and whose duration the call changed
C10_Witness ==
    /\ Returned
    /\ Len(EvBefore) = 2
    /\ EvBefore[1].onset + EvBefore[1].duration > keys[Len(keys)]
    /\ EvNow[1] = EvBefore[1]
    /\ Resolvable(EvBefore[2])
    /\ EvNow[2].duration # EvBefore[2].duration


-----------------------------------------------------------------------------
(* has_overlapping_events *)

has_overlapping_events_strict(event, onsets, last_onsets) ==
    LET matches == {k \in DOMAIN last_onsets :
                      /\ onsets[k] < event.onset + event.duration
                      /\ last_onsets[k] > event.onset}
    IN  Cardinality(matches) > 0

has_overlapping_events(event, onsets, last_onsets) ==
    LET matches == {k \in DOMAIN last_onsets :
                      /\ onsets[k] <= event.onset + event.duration
                      /\ last_onsets[k] >= event.onset}
    IN  Cardinality(matches) > 0

\* one call of has_overlapping_events on the next pending argument tuple
HasOverlapCall ==
    /\ entry = "has_overlapping_events"
    /\ pc = "call"
    /\ i < Len(args)
    /\ LET a == args[i + 1]
       IN  res' = Append(res, has_overlapping_events(a.event, a.onsets, a.last_onsets))
    /\ i' = i + 1
    /\ pc' = IF i + 1 = Len(args) THEN "done" ELSE "call"
    /\ UNCHANGED <<entry, keys, tbls, frames, pre, args, cand, evRef, new_durs,
                   zbelow, idxs, ret>>

Times == 0..MaxOnset + MaxDur

\* an event A against one candidate pair B, then B against A with the roles
\* exchanged; or an event against empty candidate lists
OverlapArgs ==
    {<<[event |-> Row(a, da), onsets |-> <<b>>, last_onsets |-> <<lb>>],
       [event |-> Row(b, lb - b), onsets |-> <<a>>, last_onsets |-> <<a + da>>]>> :
        <<a, da, b, lb>> \in (0..MaxOnset) \X (0..MaxDur) \X Times \X Times}
    \cup {<<[event |-> Row(a, da), onsets |-> <<>>, last_onsets |-> <<>>]>> :
        <<a, da>> \in (0..MaxOnset) \X (0..MaxDur)}

InitOverlap ==
    /\ entry = "has_overlapping_events"
    /\ pc = "call"
    /\ keys = <<>>
    /\ tbls = NoTbls
    /\ frames = NoFrames
    /\ pre = [tbls |-> NoTbls, frames |-> NoFrames]
    /\ args \in OverlapArgs
    /\ cand = NoCand
    /\ evRef = ""
    /\ i = 0
    /\ new_durs = <<>>
    /\ zbelow = <<>>
    /\ idxs = <<>>
    /\ res = <<>>
    /\ ret = NoRet

NextOverlap == HasOverlapCall

SpecOverlap == InitOverlap /\ [][NextOverlap]_vars

\* C8: the overlap test is inclusive and symmetric: for A = (a, a + da) and one
\* candidate pair (b, lb) the result is exactly b <= a + da /\ lb >= a, the call
\* with the roles exchanged gives the same truth value, touching intervals
\* overlap, and empty candidate lists give FALSE.
C8_OverlapSymmetricInclusive ==
    pc = "done" =>
        LET c == args[1]
            a == c.event.onset
            da == c.event.duration
        IN  IF c.onsets = <<>>
            THEN res = <<FALSE>>
            ELSE LET b == c.onsets[1]
                     lb == c.last_onsets[1]
                 IN  /\ Len(res) = 2
                     /\ res[1] = (b <= a + da /\ lb >= a)
                     /\ res[2] = res[1]
                     /\ (a + da = b /\ lb >= a) => res[1]
                     /\ (lb = a /\ b <= a + da) => res[1]

C8_Witness ==
    /\ pc = "done"
    /\ Len(res) = 2
    /\ res[1]
    /\ args[1].event.onset + args[1].event.duration = args[1].onsets[1]

-----------------------------------------------------------------------------
(* find_nested_events, get_eyelink_mask_events *)

\* last_idxs: max(0, searchsorted(x, side="right") - 1), stepped back by one
\* for the events that end at or before the last sample
LastIdx(ks, post_onset) ==
    LET last_idx == Max(0, SearchSortedRight(ks, post_onset) - 1)
        max_onset == PyIndex(ks, -1)
    IN  IF post_onset <= max_onset THEN last_idx - 1 ELSE last_idx

\* last_onsets: the time keys samples.index[last_idx]
LastOnsets(ks, inner) ==
    [k \in DOMAIN inner |-> PyIndex(ks, LastIdx(ks, inner[k].onset + inner[k].duration))]

Onsets(inner) == [k \in DOMAIN inner |-> inner[k].onset]

\* outer[outer.apply(has_overlapping_events, axis=1, args=[onsets, last_onsets])]
find_nested_events(ks, outer, inner) ==
    SelectSeq(outer,
              LAMBDA event : has_overlapping_events(event, Onsets(inner),
                                                    LastOnsets(ks, inner)))

\* the frame pd.concat returns: a new one
ConcatRefAliased == "EBLINK"

ConcatRef == "be"

\* find_nested_events(samples, events.ESACC.duration.to_frame(), be)
FindNestedEvents ==
    /\ pc = "gme"
    /\ cand' = [onsets |-> Onsets(frames["EBLINK"]),
                last_onsets |-> LastOnsets(keys, frames["EBLINK"])]
    /\ frames' = [frames EXCEPT
                    !["nested"] = find_nested_events(keys, frames["ESACC"], frames["EBLINK"])]
    /\ pc' = "gme_concat"
    /\ UNCHANGED <<entry, keys, tbls, pre, args, evRef, i, new_durs, zbelow, idxs,
                   res, ret>>

\* be = pd.concat([be, nested]); if find_recovery: adjust_eyelink_recov_idxs(samples, be)
GmeConcat ==
    /\ pc = "gme_concat"
    /\ frames' = [frames EXCEPT ![ConcatRef] = frames["EBLINK"] \o frames["nested"]]
    /\ evRef' = ConcatRef
    /\ pc' = IF args.find_recovery THEN "adj_begin" ELSE "gme_ret"
    /\ UNCHANGED <<entry, keys, tbls, pre, args, cand, i, new_durs, zbelow, idxs,
                   res, ret>>

\* return be
GmeReturn ==
    /\ pc = "gme_ret"
    /\ IF entry = "get_eyelink_mask_events"
       THEN ret' = [kind |-> "frame", ref |-> evRef] /\ pc' = "done"
       ELSE ret' = ret /\ pc' = "rows"
    /\ UNCHANGED <<entry, keys, tbls, frames, pre, args, cand, evRef, i, new_durs,
                   zbelow, idxs, res>>

\* event frames of one kind: unique onsets, in time order
KindFrames(n) ==
    {f \in SeqsUpTo(EventRows, n) :
        \A a, b \in DOMAIN f : a < b => f[a].onset < f[b].onset}

FlatTable ==
    Table(Cols, [c \in {"pup_l", "x_l"} |-> [r \in 1..NSamp |-> Val(1)]])

CallArgs(find_recovery, mask_fields) ==
    [find_recovery |-> find_recovery, mask_fields |-> mask_fields,
     z_num |-> DefaultZNum, z_den |-> DefaultZDen,
     window |-> DefaultWindow, kernel_size |-> DefaultKernel]

InitEvents ==
    /\ entry = "get_eyelink_mask_events"
    /\ pc = "gme"
    /\ keys \in KeySeqs
    /\ \E b \in KindFrames(MaxEvents), sc \in KindFrames(MaxEvents) :
         LET h == [NoTbls EXCEPT !["samples"] = FlatTable]
             g == [NoFrames EXCEPT !["EBLINK"] = b, !["ESACC"] = sc]
         IN  /\ tbls = h
             /\ frames = g
             /\ pre = [tbls |-> h, frames |-> g]
    /\ args = CallArgs(FALSE, <<>>)
    /\ cand = NoCand
    /\ evRef = ""
    /\ i = 0
    /\ new_durs = <<>>
    /\ zbelow = <<>>
    /\ idxs = <<>>
    /\ res = <<>>
    /\ ret = NoRet

NextEvents == FindNestedEvents \/ GmeConcat \/ GmeReturn

SpecEvents == InitEvents /\ [][NextEvents]_vars

\* C1: with find_recovery=False, get_eyelink_mask_events returns every blink,
\* and a saccade is returned iff some blink has blink.onset <= saccade.onset +
\* saccade.duration and blink.onset + blink.duration >= saccade.onset.
C1_SaccadeIffOverlapsBlink ==
    (entry = "get_eyelink_mask_events" /\ pc = "done") =>
        LET out == frames[ret.ref]
            blinks == pre.frames["EBLINK"]
            saccs == pre.frames["ESACC"]
            flagged == Range(SubSeq(out, Len(blinks) + 1, Len(out)))
        IN  /\ Len(out) >= Len(blinks)
            /\ SubSeq(out, 1, Len(blinks)) = blinks
            /\ \A k \in DOMAIN saccs :
                  (saccs[k] \in flagged) <=>
                      \E j \in DOMAIN blinks :
                          /\ blinks[j].onset <= saccs[k].onset + saccs[k].duration
                          /\ blinks[j].onset + blinks[j].duration >= saccs[k].onset

-----------------------------------------------------------------------------
(* get_eyelink_mask_idxs, mask_eyelink_blinks, interp_eyelink_blinks *)

\* the table mask_eyelink_blinks writes to: samps = samples.copy(deep=True)
MaskTarget == "samps"

\* samps.loc[indices, mask_fields] = float('nan')
SetCellsNaN(t, ks, indices, fields) ==
    [t EXCEPT !.data = [c \in DOMAIN t.data |->
                           [r \in DOMAIN t.data[c] |->
                               IF c \in Range(fields) /\ ks[r] \in Range(indices)
                               THEN NaN ELSE t.data[c][r]]]]

\* Series.interpolate(method="linear"): a NaN between two values lies on the
\* line through them (equally spaced rows), a NaN after the last value takes
\* that value, a NaN before the first value stays
InterpolateColumn(col) ==
    [r \in DOMAIN col |->
        IF ~col[r].nan THEN col[r]
        ELSE LET before == {a \in 1..(r - 1) : ~col[a].nan}
                 after == {b \in (r + 1)..Len(col) : ~col[b].nan}
             IN  IF before = {} THEN NaN
                 ELSE LET a == CHOOSE x \in before : \A y \in before : y <= x
                      IN  IF after = {} THEN col[a]
                          ELSE LET b == CHOOSE x \in after : \A y \in after : x <= y
                               IN  [nan |-> FALSE,
                                    num |-> col[a].num * (b - a)
                                              + (col[b].num - col[a].num) * (r - a),
                                    den |-> b - a,
                                    filt |-> col[a].filt \/ col[b].filt]]

\* the inplace argument interp_eyelink_blinks passes to DataFrame.interpolate
InterpInplace == TRUE

\* DataFrame.interpolate(method="linear", axis=0, inplace=...): with inplace the
\* table itself is rewritten and None is returned, else a new table is returned
PdInterpolate(t, inplace) ==
    LET done == [t EXCEPT !.data = [c \in DOMAIN t.data |-> InterpolateColumn(t.data[c])]]
    IN  IF inplace
        THEN [self |-> done, kind |-> "None", new |-> NoTbls["interp"]]
        ELSE [self |-> t, kind |-> "table", new |-> done]

\* samps = samples.copy(deep=True); get_eyelink_mask_idxs(samps, events, ...)
MaskBlinksBegin ==
    /\ entry \in {"mask_eyelink_blinks", "interp_eyelink_blinks"}
    /\ pc = "call"
    /\ tbls' = [tbls EXCEPT !["samps"] = tbls["samples"]]
    /\ pc' = "gme"
    /\ UNCHANGED <<entry, keys, frames, pre, args, cand, evRef, i, new_durs, zbelow,
                   idxs, res, ret>>

\* get_eyelink_mask_idxs: bi = ev_row_idxs(samples, be)
MaskIdxs ==
    /\ pc = "rows"
    /\ idxs' = ev_row_idxs(keys, frames[evRef])
    /\ pc' = "assign"
    /\ UNCHANGED <<entry, keys, tbls, frames, pre, args, cand, evRef, i, new_durs,
                   zbelow, res, ret>>

\* samps.loc[indices, mask_fields] = float('nan')
MaskAssign ==
    /\ pc = "assign"
    /\ tbls' = [tbls EXCEPT ![MaskTarget] = SetCellsNaN(@, keys, idxs, args.mask_fields)]
    /\ pc' = "mask_ret"
    /\ UNCHANGED <<entry, keys, frames, pre, args, cand, evRef, i, new_durs, zbelow,
                   idxs, res, ret>>

\* mask_eyelink_blinks: return samps
MaskReturn ==
    /\ pc = "mask_ret"
    /\ IF entry = "mask_eyelink_blinks"
       THEN ret' = [kind |-> "table", ref |-> MaskTarget] /\ pc' = "done"
       ELSE ret' = ret /\ pc' = "interp"
    /\ UNCHANGED <<entry, keys, tbls, frames, pre, args, cand, evRef, i, new_durs,
                   zbelow, idxs, res>>

\* samps = samps.interpolate(method="linear", axis=0, inplace=True); return samps
InterpReturn ==
    /\ pc = "interp"
    /\ LET r == PdInterpolate(tbls[MaskTarget], InterpInplace)
       IN  /\ tbls' = [tbls EXCEPT ![MaskTarget] = r.self, !["interp"] = r.new]
           /\ ret' = [kind |-> r.kind, ref |-> IF r.kind = "table" THEN "interp" ELSE ""]
    /\ pc' = "done"
    /\ UNCHANGED <<entry, keys, frames, pre, args, cand, evRef, i, new_durs, zbelow,
                   idxs, res>>

BlinkTables ==
    {Table(Cols, [c \in {"pup_l", "x_l"} |->
                    IF c = "pup_l" THEN p ELSE [r \in 1..NSamp |-> Val(1)]]) :
        p \in RecovPups}

InitBlinks ==
    /\ entry \in {"mask_eyelink_blinks", "interp_eyelink_blinks"}
    /\ pc = "call"
    /\ keys \in KeySeqs
    /\ \E t \in BlinkTables, b \in KindFrames(1), sc \in KindFrames(1) :
         LET h == [NoTbls EXCEPT !["samples"] = t]
             g == [NoFrames EXCEPT !["EBLINK"] = b, !["ESACC"] = sc]
         IN  /\ tbls = h
             /\ frames = g
             /\ pre = [tbls |-> h, frames |-> g]
    /\ \E fr \in BOOLEAN : args = CallArgs(fr, <<"pup_l">>)
    /\ cand = NoCand
    /\ evRef = ""
    /\ i = 0
    /\ new_durs = <<>>
    /\ zbelow = <<>>
    /\ idxs = <<>>
    /\ res = <<>>
    /\ ret = NoRet

NextBlinks ==
    \/ MaskBlinksBegin
    \/ FindNestedEvents
    \/ GmeConcat
    \/ AdjustBegin
    \/ AdjustEvent
    \/ AdjustAssign
    \/ GmeReturn
    \/ MaskIdxs
    \/ MaskAssign
    \/ MaskReturn
    \/ InterpReturn

SpecBlinks == InitBlinks /\ [][NextBlinks]_vars

\* C4: mask_eyelink_blinks leaves its inputs unmodified, with or without
\* find_recovery: the caller's sample table and the onsets and durations of
\* the caller's events are at every point what they were when it was called.
C4_InputsUnmodified ==
    entry = "mask_eyelink_blinks" =>
        /\ tbls["samples"] = pre.tbls["samples"]
        /\ frames["EBLINK"] = pre.frames["EBLINK"]
        /\ frames["ESACC"] = pre.frames["ESACC"]

\* the call returned with find_recovery, having flagged a saccade, changed a
\* duration in the derived frame and masked a sample
C4_Witness ==
    /\ entry = "mask_eyelink_blinks" /\ pc = "done"
    /\ args.find_recovery
    /\ Len(frames["nested"]) > 0
    /\ \E k \in DOMAIN frames["EBLINK"] :
          frames["be"][k].duration # frames["EBLINK"][k].duration
    /\ tbls[ret.ref] # tbls["samples"]

\* C5: interp_eyelink_blinks returns a new sample table, never None, with the
\* index and the channels of the input.
C5_InterpReturnsTable ==
    (entry = "interp_eyelink_blinks" /\ pc = "done") =>
        /\ ret.kind = "table"
        /\ ret.ref # "samples"
        /\ tbls[ret.ref].cols = tbls["samples"].cols
        /\ \A c \in DOMAIN tbls["samples"].data :
              Len(tbls[ret.ref].data[c]) = Len(keys)

-----------------------------------------------------------------------------
(* interp_zeros *)

\* Series.fillna(method="bfill"): a NaN takes the next value below it, a NaN
\* with no value below stays
BFill(col) ==
    [r \in DOMAIN col |->
        IF ~col[r].nan THEN col[r]
        ELSE LET after == {b \in (r + 1)..Len(col) : ~col[b].nan}
             IN  IF after = {} THEN NaN
                 ELSE col[CHOOSE x \in after : \A y \in after : x <= y]]

\* Series.fillna(method="ffill"): a NaN takes the last value above it, a NaN
\* with no value above stays
FFill(col) ==
    [r \in DOMAIN col |->
        IF ~col[r].nan THEN col[r]
        ELSE LET before == {a \in 1..(r - 1) : ~col[a].nan}
             IN  IF before = {} THEN NaN
                 ELSE col[CHOOSE x \in before : \A y \in before : y <= x]]

\* DataFrame.fillna(method=..., inplace=True), column by column
FillNa(t, method) ==
    [t EXCEPT !.data = [c \in DOMAIN t.data |->
                           IF method = "bfill" THEN BFill(t.data[c])
                           ELSE FFill(t.data[c])]]

\* samps = mask_zeros(samples, mask_fields=interp_fields): the masked copy
\* comes back to interp_zeros
InterpZerosMasked ==
    /\ entry = "interp_zeros"
    /\ pc = "mz_loop"
    /\ i = Len(args.mask_fields)
    /\ pc' = "iz_interp"
    /\ UNCHANGED <<entry, keys, tbls, frames, pre, args, cand, evRef, i, new_durs,
                   zbelow, idxs, res, ret>>

\* samps = samps.interpolate(method="linear", axis=0, inplace=False)
InterpZerosInterpolate ==
    /\ entry = "interp_zeros"
    /\ pc = "iz_interp"
    /\ LET out == PdInterpolate(tbls["samps"], FALSE)
       IN  tbls' = [tbls EXCEPT !["samps"] = out.self, !["interp"] = out.new]
    /\ pc' = "iz_fill"
    /\ UNCHANGED <<entry, keys, frames, pre, args, cand, evRef, i, new_durs,
                   zbelow, idxs, res, ret>>

\* samps.fillna(method="bfill", inplace=True);
\* samps.fillna(method="ffill", inplace=True); return samps
InterpZerosFill ==
    /\ entry = "interp_zeros"
    /\ pc = "iz_fill"
    /\ tbls' = [tbls EXCEPT !["interp"] = FillNa(FillNa(@, "bfill"), "ffill")]
    /\ ret' = [kind |-> "table", ref |-> "interp"]
    /\ pc' = "done"
    /\ UNCHANGED <<entry, keys, frames, pre, args, cand, evRef, i, new_durs,
                   zbelow, idxs, res>>

InitInterpZeros ==
    /\ entry = "interp_zeros"
    /\ pc = "call"
    /\ keys = [k \in 1..NSamp |-> k - 1]
    /\ \E p \in ValSeqs, x \in {q \in ValSeqs : \A r \in 2..NSamp : q[r] = Val(1)} :
         LET t == Table(Cols, [c \in {"pup_l", "x_l"} |-> IF c = "pup_l" THEN p ELSE x])
             h == [NoTbls EXCEPT !["samples"] = t]
         IN  /\ tbls = h
             /\ pre = [tbls |-> h, frames |-> NoFrames]
    /\ frames = NoFrames
    /\ \E mf \in FieldLists : args = [mask_fields |-> mf]
    /\ cand = NoCand
    /\ evRef = ""
    /\ i = 0
    /\ new_durs = <<>>
    /\ zbelow = <<>>
    /\ idxs = <<>>
    /\ res = <<>>
    /\ ret = NoRet

NextInterpZeros ==
    \/ MaskZerosBegin
    \/ MaskZerosField
    \/ InterpZerosMasked
    \/ InterpZerosInterpolate
    \/ InterpZerosFill

SpecInterpZeros == InitInterpZeros /\ [][NextInterpZeros]_vars

-----------------------------------------------------------------------------
(* butterworth_series *)

\* filt_order=5 in the signature
DefaultFiltOrder == 5

\* signal.butter(filt_order, cutoff_freq, output="BA") gives filt_order + 1
\* coefficients each, and filtfilt pads by three times that many samples
PadLen(filt_order) == 3 * (filt_order + 1)

\* samps = samples if inplace else samples.copy(deep=True): the table written
ButterTarget(inplace) == IF inplace THEN "samples" ELSE "samps"

\* signal.filtfilt(B, A, x) on one column: a NaN anywhere runs through the
\* whole recursion; otherwise every cell is a filtered value
FiltFilt(col) ==
    IF \E r \in DOMAIN col : col[r].nan
    THEN [r \in DOMAIN col |-> NaN]
    ELSE [r \in DOMAIN col |-> [col[r] EXCEPT !.filt = TRUE]]

\* samps = samples if inplace else samples.copy(deep=True)
ButterworthBegin ==
    /\ entry = "butterworth_series"
    /\ pc = "call"
    /\ tbls' = [tbls EXCEPT ![ButterTarget(args.inplace)] = tbls["samples"]]
    /\ pc' = "bw_filter"
    /\ UNCHANGED <<entry, keys, frames, pre, args, cand, evRef, i, new_durs, zbelow,
                   idxs, res, ret>>

\* samps[fields] = samps[fields].apply(lambda x: signal.filtfilt(B, A, x), axis=0):
\* filtfilt raises ValueError for a column no longer than the padding, before
\* anything is assigned
ButterworthFilter ==
    /\ entry = "butterworth_series"
    /\ pc = "bw_filter"
    /\ IF Len(keys) <= PadLen(args.filt_order)
       THEN /\ pc' = "raised"
            /\ tbls' = tbls
       ELSE /\ tbls' = [tbls EXCEPT ![ButterTarget(args.inplace)].data =
                           [c \in DOMAIN @ |->
                               IF c \in Range(args.fields) THEN FiltFilt(@[c]) ELSE @[c]]]
            /\ pc' = "bw_ret"
    /\ UNCHANGED <<entry, keys, frames, pre, args, cand, evRef, i, new_durs, zbelow,
                   idxs, res, ret>>

\* return samps
ButterworthReturn ==
    /\ entry = "butterworth_series"
    /\ pc = "bw_ret"
    /\ ret' = [kind |-> "table", ref |-> ButterTarget(args.inplace)]
    /\ pc' = "done"
    /\ UNCHANGED <<entry, keys, tbls, frames, pre, args, cand, evRef, i, new_durs,
                   zbelow, idxs, res>>

\* the orders tried: one whose padding a short recording can exceed, and the
\* default
FiltOrders == {1, DefaultFiltOrder}

\* recording lengths on either side of the padding of the lowest order
FiltLens == {NSamp, PadLen(1) + 1}

FiltFields == {<<"pup_l">>, <<"x_l">>, <<"pup_l", "x_l">>}

\* pupil columns of n samples, flat at 1 but for the last two
FiltPups(n) ==
    {p \in [1..n -> {Val(v) : v \in 0..MaxVal}] : \A r \in 1..(n - 2) : p[r] = Val(1)}

InitButterworth ==
    /\ entry = "butterworth_series"
    /\ pc = "call"
    /\ \E n \in FiltLens :
         /\ keys = [k \in 1..n |-> k - 1]
         /\ \E p \in FiltPups(n) :
              LET t == Table(Cols, [c \in {"pup_l", "x_l"} |->
                                      IF c = "pup_l" THEN p ELSE [r \in 1..n |-> Val(1)]])
                  h == [NoTbls EXCEPT !["samples"] = t]
              IN  /\ tbls = h
                  /\ pre = [tbls |-> h, frames |-> NoFrames]
    /\ frames = NoFrames
    /\ \E f \in FiltFields, o \in FiltOrders, ip \in BOOLEAN :
         args = [fields |-> f, filt_order |-> o, inplace |-> ip]
    /\ cand = NoCand
    /\ evRef = ""
    /\ i = 0
    /\ new_durs = <<>>
    /\ zbelow = <<>>
    /\ idxs = <<>>
    /\ res = <<>>
    /\ ret = NoRet

NextButterworth == ButterworthBegin \/ ButterworthFilter \/ ButterworthReturn

SpecButterworth == InitButterworth /\ [][NextButterworth]_vars

-----------------------------------------------------------------------------
(* Every entry point together *)

Init ==
    \/ InitOverlap
    \/ InitRows
    \/ InitZeros
    \/ InitInterpZeros
    \/ InitRecov
    \/ InitEvents
    \/ InitBlinks
    \/ InitButterworth

Next ==
    \/ HasOverlapCall
    \/ EvRowIdxsCall
    \/ MaskZerosBegin
    \/ MaskZerosField
    \/ MaskZerosReturn
    \/ InterpZerosMasked
    \/ InterpZerosInterpolate
    \/ InterpZerosFill
    \/ NextBlinks
    \/ ButterworthBegin
    \/ ButterworthFilter
    \/ ButterworthReturn

Spec == Init /\ [][Next]_vars

====
